---- MODULE Spec2Model ----
(***************************************************************************)
(* Job tracking and background extraction of the two Flask wrappers of     *)
(* the lead-generation tool:                                               *)
(*   - src/google_map_flask_api.py          (/api/scrape,  "scrape")       *)
(*   - src/New folder/flask_backend_api.py  (/api/extract, "extract")      *)
(* A process runs one of the two wrappers; Init chooses which.  Every job  *)
(* has a background thread (its execution unit) whose steps are the        *)
(* attribute writes of run_scraping_job / run_extraction; request handlers *)
(* read the job's attributes one at a time, so a handler interleaves with  *)
(* the unit between any two reads.                                         *)
(***************************************************************************)
EXTENDS Integers, Sequences, FiniteSets, TLC

VARIABLES
    wrapper,    \* which program runs: "scrape" or "extract"
    jobs,       \* scraping_jobs / extraction_jobs: job id -> job object
    unit,       \* job id -> state of the job's background thread
    req,        \* the read request being handled (get_job_status, get_results, download_csv)
    resp,       \* the HTTP response being delivered to the client (NoResp: none)
    seen,       \* the client's note of the last status view it received
    issued      \* job ids returned to a client by a submit

vars == <<wrapper, jobs, unit, req, resp, seen, issued>>

(***************************************************************************)
(* Bounds of the model.                                                    *)
(***************************************************************************)
\* number of jobs submitted in one run
MaxJobs == 2

JobIds == 1..MaxJobs
\* an id no submit ever returns (uuid4 values are fresh)
UnknownId == MaxJobs + 1

None == "None"

(***************************************************************************)
(* Strings.  A Python str is a sequence of tokens: the token " " is one    *)
(* whitespace character, every other token is a run of non-whitespace      *)
(* text.  The empty str is <<>>.                                           *)
(***************************************************************************)
WS == " "

RECURSIVE LStrip(_)
LStrip(s) == IF s # <<>> /\ Head(s) = WS THEN LStrip(Tail(s)) ELSE s

RECURSIVE RStrip(_)
RStrip(s) ==
    IF s # <<>> /\ s[Len(s)] = WS THEN RStrip(SubSeq(s, 1, Len(s) - 1)) ELSE s

\* str.strip()
Strip(s) == RStrip(LStrip(s))

Digits == <<"0", "1", "2", "3", "4", "5", "6", "7", "8", "9">>

IsDigit(c) == \E i \in 1..10 : Digits[i] = c

DigitVal(c) == (CHOOSE i \in 1..10 : Digits[i] = c) - 1

RECURSIVE DigitsVal(_)
DigitsVal(s) ==
    IF s = <<>> THEN 0
    ELSE 10 * DigitsVal(SubSeq(s, 1, Len(s) - 1)) + DigitVal(s[Len(s)])

(***************************************************************************)
(* JSON values of a request body.  t is the JSON type; "absent" is a key   *)
(* that the body does not hold.                                            *)
(***************************************************************************)
JStr(s) == [t |-> "str", s |-> s, n |-> 0]
JNum(n) == [t |-> "num", s |-> <<>>, n |-> n]
JList(s) == [t |-> "list", s |-> s, n |-> 0]
JNull == [t |-> "null", s |-> <<>>, n |-> 0]
JAbsent == [t |-> "absent", s |-> <<>>, n |-> 0]

\* data.get(key, default): the default only replaces an absent key
Get(v, default) == IF v.t = "absent" THEN default ELSE v

\* Python truthiness of a JSON value (used by "if not industries")
Truthy(v) ==
    CASE v.t = "str" -> v.s # <<>>
      [] v.t = "list" -> v.s # <<>>
      [] v.t = "num" -> v.n # 0
      [] OTHER -> FALSE

\* int(x): [ok, n].  A number converts; a str converts when, stripped, it is
\* an optional sign and digits (ValueError otherwise); None is a TypeError.
IntOf(v) ==
    CASE v.t = "num" -> [ok |-> TRUE, n |-> v.n]
      [] v.t = "str" ->
            LET s == Strip(v.s)
                neg == s # <<>> /\ Head(s) = "-"
                d == IF neg THEN Tail(s) ELSE s
            IN  IF d # <<>> /\ \A i \in 1..Len(d) : IsDigit(d[i])
                THEN [ok |-> TRUE, n |-> IF neg THEN 0 - DigitsVal(d) ELSE DigitsVal(d)]
                ELSE [ok |-> FALSE, n |-> 0]
      [] OTHER -> [ok |-> FALSE, n |-> 0]

\* x.strip() of a request value: [ok, s]; AttributeError unless x is a str
StripOf(v) ==
    IF v.t = "str" THEN [ok |-> TRUE, s |-> Strip(v.s)] ELSE [ok |-> FALSE, s |-> <<>>]


(***************************************************************************)
(* Submissions.  The request bodies a client may post.                     *)
(***************************************************************************)
Austin == <<"Austin">>
London == <<"London", ",", WS, "UK">>
Atlantis == <<"Atlantis">>
Tech == <<"Technology & Software">>

\* values of the request body of POST /api/scrape
ScrapeLocations == {JStr(Austin), JStr(<<WS, "Austin", WS>>), JStr(<<>>), JStr(<<WS>>),
                    JNum(5), JNull, JAbsent}
ScrapeCountries == {JAbsent, JNum(1)}
ScrapeBusinessTypes == {JStr(<<"Cafes">>), JStr(<<>>), JStr(<<WS, WS>>), JNum(5), JAbsent}
ScrapeCaps == {JAbsent, JNum(50), JStr(<<"5", "0">>), JNum(0), JNum(7), JNum(-1),
               JStr(<<"abc">>), JNull}

ScrapeRequests ==
    [json : BOOLEAN, location : ScrapeLocations, country : ScrapeCountries,
     state : {JAbsent}, business_type : ScrapeBusinessTypes, max_results : ScrapeCaps]

\* request bodies of POST /api/extract
ExtractCities == {JStr(London), JStr(<<WS, "Atlantis">>), JStr(<<>>), JStr(<<WS>>),
                  JNum(5), JAbsent}
ExtractIndustries == {JList(Tech), JList(<<>>), JNull, JAbsent}
ExtractCaps == {JAbsent, JNum(0), JStr(<<"abc">>), JNull}

ExtractRequests ==
    [json : BOOLEAN, city : ExtractCities, industries : ExtractIndustries,
     maxResults : ExtractCaps]

\* the submissions of Spec: a well-formed one, and one for every way of
\* being rejected; SpecSubmit posts every request of ScrapeRequests and
\* ExtractRequests
ScrapeBase ==
    [json |-> TRUE, location |-> JStr(<<WS, "Austin", WS>>), country |-> JAbsent,
     state |-> JAbsent, business_type |-> JStr(<<"Cafes">>), max_results |-> JAbsent]

ScrapeSamples ==
    {ScrapeBase, [ScrapeBase EXCEPT !.location = JStr(<<WS>>)],
     [ScrapeBase EXCEPT !.max_results = JStr(<<"abc">>)]}

ExtractBase ==
    [json |-> TRUE, city |-> JStr(London), industries |-> JList(Tech),
     maxResults |-> JAbsent]

ExtractSamples ==
    {ExtractBase, [ExtractBase EXCEPT !.city = JStr(<<WS, "Atlantis">>)],
     [ExtractBase EXCEPT !.industries = JList(<<>>)],
     [ExtractBase EXCEPT !.json = FALSE]}

\* submissions with a small result cap: fewer results than the source offers
ScrapeCapSamples == {[ScrapeBase EXCEPT !.max_results = JNum(10)]}

ExtractCapSamples ==
    {[ExtractBase EXCEPT !.maxResults = JNum(1)],
     [ExtractBase EXCEPT !.maxResults = JNum(-1)]}

\* the result caps /api/scrape accepts
AllowedMaxResults == {10, 20, 50, 80, 100}

DefaultScrapeMaxResults == 50
DefaultExtractMaxResults == 250

(***************************************************************************)
(* Job objects.                                                            *)
(***************************************************************************)
\* {}
EmptyDict == [k \in {} |-> 0]

\* ScrapingJob.__init__, had results been a list shared by every job (a
\* mutable default argument) that an earlier job has filled
ScrapingJobShared(job_id, location, country, state, business_type, max_results) ==
    [job_id |-> job_id, location |-> location, country |-> country, state |-> state,
     business_type |-> business_type, max_results |-> max_results,
     status |-> "pending", progress |-> 0, results |-> <<[name |-> "Acme Cafe"]>>,
     error_message |-> None, created_at |-> "ts", completed_at |-> None]

\* ScrapingJob.__init__
ScrapingJob(job_id, location, country, state, business_type, max_results) ==
    [job_id |-> job_id, location |-> location, country |-> country, state |-> state,
     business_type |-> business_type, max_results |-> max_results,
     status |-> "pending", progress |-> 0, results |-> <<>>,
     error_message |-> None, created_at |-> "ts", completed_at |-> None]

\* ExtractionJob.__init__
ExtractionJob(job_id, city, industries, max_results) ==
    [job_id |-> job_id, city |-> city, industries |-> industries,
     max_results |-> max_results,
     status |-> "pending", progress |-> 0, results |-> <<>>, stats |-> EmptyDict,
     error_message |-> None, created_at |-> "ts", completed_at |-> None]

\* results of the two validations: a response, and the job to create (if any)
Reject(code, error) == [code |-> code, error |-> error, accept |-> FALSE]
Accept(job) == [code |-> 200, error |-> "", accept |-> TRUE, job |-> job]

AttributeErrorMsg == "object has no attribute 'strip'"
NoBodyMsg == "'NoneType' object has no attribute 'get'"
IntErrorMsg == "invalid literal for int() with base 10"

\* "max_results not in [10, 20, 50, 80, 100]" of start_scraping
CapRejected(max_results) == max_results \notin AllowedMaxResults

\* start_scraping, lines 171-192 and 206-207: the response of a rejected
\* submission, or the job of an accepted one
ValidateScrape(r, job_id) ==
    LET location == StripOf(Get(r.location, JStr(<<>>)))
        country == StripOf(Get(r.country, JStr(<<>>)))
        state == StripOf(Get(r.state, JStr(<<>>)))
        business_type == StripOf(Get(r.business_type, JStr(<<>>)))
        max_results == IntOf(Get(r.max_results, JNum(DefaultScrapeMaxResults)))
    IN  IF ~r.json THEN Reject(500, NoBodyMsg)
        ELSE IF ~(location.ok /\ country.ok /\ state.ok /\ business_type.ok)
        THEN Reject(500, AttributeErrorMsg)
        ELSE IF ~max_results.ok THEN Reject(500, IntErrorMsg)
        ELSE IF location.s = <<>> THEN Reject(400, "Location is required")
        ELSE IF business_type.s = <<>> THEN Reject(400, "Business type is required")
        ELSE IF CapRejected(max_results.n) THEN Reject(400, "Invalid max_results value")
        ELSE Accept(ScrapingJob(job_id, location.s, country.s, state.s,
                                business_type.s, max_results.n))

\* start_extraction, lines 99-115 and 129-130
ValidateExtract(r, job_id) ==
    LET city == StripOf(Get(r.city, JStr(<<>>)))
        industries == Get(r.industries, JList(<<>>))
        max_results == IntOf(Get(r.maxResults, JNum(DefaultExtractMaxResults)))
    IN  IF ~r.json THEN Reject(500, NoBodyMsg)
        ELSE IF ~city.ok THEN Reject(500, AttributeErrorMsg)
        ELSE IF ~max_results.ok THEN Reject(500, IntErrorMsg)
        ELSE IF city.s = <<>> THEN Reject(400, "City is required")
        ELSE IF ~Truthy(industries)
        THEN Reject(400, "At least one industry must be selected")
        ELSE Accept(ExtractionJob(job_id, city.s, industries.s, max_results.n))

\* the field a 4xx/5xx message names ("none": the message names no field)
FieldNamed(error) ==
    CASE error = "Location is required" -> "location"
      [] error = "Business type is required" -> "business_type"
      [] error = "Invalid max_results value" -> "max_results"
      [] error = "City is required" -> "city"
      [] error = "At least one industry must be selected" -> "industries"
      [] OTHER -> "none"

\* RegisterJob, had it rebound the table to one that holds the new job alone
RegisterJobAlone(table, job_id, job) == [i \in {job_id} |-> job]

\* scraping_jobs[job_id] = job / extraction_jobs[job_id] = job
RegisterJob(table, job_id, job) ==
    [i \in DOMAIN table \cup {job_id} |-> IF i = job_id THEN job ELSE table[i]]

\* StartedUnit, had submit run the target to its end (thread.run() or a
\* join) before returning
StartedUnitJoined ==
    [pc |-> "done", exc |-> None, driver |-> "none", local |-> <<>>, runs |-> 1,
     calls |-> 1]

\* threading.Thread(target=..., args=(job,)); thread.start(): the unit is
\* about to run its first line.  runs counts the threads started for the
\* job id, calls the invocations of the Extractor.
StartedUnit ==
    [pc |-> "start", exc |-> None, driver |-> "none", local |-> <<>>, runs |-> 1,
     calls |-> 0]

StartThread(units, job_id) ==
    [i \in DOMAIN units \cup {job_id} |->
        IF i # job_id THEN units[i]
        ELSE IF job_id \in DOMAIN units
        THEN [StartedUnit EXCEPT !.runs = units[job_id].runs + 1]
        ELSE StartedUnit]

\* FreshIds, had the job id been derived from a value that repeats
FreshIdsRepeated == {i \in JobIds : i = 1}

\* str(uuid.uuid4()): an id never generated before (ids are numbered in the
\* order of their generation)
FreshIds ==
    LET unused == {i \in JobIds : i \notin issued /\ i \notin DOMAIN jobs}
    IN  {i \in unused : \A k \in unused : i <= k}

(***************************************************************************)
(* The Extractors, as the execution units see them.                        *)
(***************************************************************************)
\* a data dict of MapsToWebsiteScraper._extract_business_data (all 8 keys,
\* appended to self.results only with a name)
CardA ==
    [name |-> "Acme Cafe", rating |-> "4.5", category |-> "", address |-> "",
     phone |-> "", website |-> "http://acme.example", email |-> "", linkedin |-> ""]

\* the card whose website anchor carries no href
NoHrefCard == "Cafe 02"

\* the data dict of a card whose details show the name n ("": no h1 found);
\* lines 301-311: the website is website_element.get_attribute("href"),
\* which is None for an anchor without that attribute
Card(n) == [CardA EXCEPT !.name = n, !.website = IF n = NoHrefCard THEN None ELSE @]

CardNames ==
    <<"Cafe 01", "Cafe 02", "", "Cafe 04", "Cafe 05", "Cafe 06", "Cafe 07", "Cafe 08",
      "Cafe 09", "Cafe 10", "Cafe 11", "Cafe 12", "Cafe 13">>

\* the cards find_elements returns: the first n cards of the result list
Cards(n) == [i \in 1..n |-> Card(CardNames[i])]

\* what the result panel shows round after round (the last list stays): no
\* card at all, one card, and a list that grows as the panel is scrolled
DomPages == {<<<<>>>>, <<<<CardA>>>>, <<Cards(7), Cards(13)>>}

Min(a, b) == IF a <= b THEN a ELSE b

\* MapsToWebsiteScraper._extract_business_data, lines 317-322: the data is
\* appended only with a name
ExtractBusinessData(results, card) ==
    IF card.name # "" THEN Append(results, card) ELSE results

\* _scroll_and_load_results, lines 174-177: for card in cards_to_process,
\* the cards from index i to index stop of the list; visited notes the index
\* of every card handed to _extract_business_data
RECURSIVE ProcessCards(_, _, _, _, _)
ProcessCards(cards, i, stop, st, max_results) ==
    IF i > stop \/ Len(st.results) >= max_results THEN st
    ELSE ProcessCards(cards, i + 1, stop,
                      [st EXCEPT !.results = ExtractBusinessData(@, cards[i]),
                                 !.visited = Append(@, i)],
                      max_results)

max_idle_rounds == 5
CardsPerRound == 5

\* the rounds of the while loop the model follows before it gives up
MaxRounds == 12

\* NewCards, had the comparison been current_count >= last_count
NewCardsOrSame(current_count, last_count) == current_count >= last_count

\* lines 165-169: if current_count > last_count
NewCards(current_count, last_count) == current_count > last_count

\* lines 153-155: the loop's variables before the first round (rounds counts
\* the rounds begun, exit names the way the loop was left)
ScrollStart(pages) ==
    [pages |-> pages, results |-> <<>>, visited |-> <<>>, last_count |-> 0,
     idle_rounds |-> 0, rounds |-> 0, exit |-> "none"]

\* _scroll_and_load_results, lines 157-196: the while loop from round r on
RECURSIVE ScrollRounds(_, _, _)
ScrollRounds(r, st, max_results) ==
    IF Len(st.results) >= max_results THEN [st EXCEPT !.exit = "while"]
    ELSE IF r > MaxRounds THEN st
    ELSE LET cards == st.pages[Min(r, Len(st.pages))]
             current_count == Len(cards)
             new == NewCards(current_count, st.last_count)
             stop == Len(st.results)
                        + Min(CardsPerRound, max_results - Len(st.results))
             round == [st EXCEPT !.rounds = r,
                                 !.idle_rounds = IF new THEN 0 ELSE @ + 1,
                                 !.last_count = IF new THEN current_count ELSE @]
             processed == ProcessCards(cards, Len(st.results) + 1,
                                       Min(stop, current_count), round, max_results)
         IN  IF Len(processed.results) >= max_results
             THEN [processed EXCEPT !.exit = "max"]
             ELSE IF processed.idle_rounds >= max_idle_rounds
             THEN [processed EXCEPT !.exit = "idle"]
             ELSE ScrollRounds(r + 1, processed, max_results)

\* MapsToWebsiteScraper._scroll_and_load_results on a panel that shows the
\* pages round after round
scroll_and_load_results(pages, max_results) ==
    ScrollRounds(1, ScrollStart(pages), max_results)

\* MapsToWebsiteScraper.scroll_hover_and_extract: the call of
\* _scroll_and_load_results; the field results is the self.results it
\* returns, the other fields are how the loop went
scroll_hover_and_extract(pages, max_results) ==
    scroll_and_load_results(pages, max_results)

\* what scroll_hover_and_extract may leave for a cap of max_results
ScrapeOutputs(max_results) ==
    {scroll_hover_and_extract(pages, max_results) : pages \in DomPages}

ScrapeFields ==
    <<"name", "rating", "category", "address", "phone", "website", "email", "linkedin">>

\* result.get(field, '')
GetField(result, field) == IF field \in DOMAIN result THEN result[field] ELSE ""

\* run_scraping_job, lines 75-87: cleaned_results
CleanResults(results) ==
    [i \in 1..Len(results) |->
        [f \in {ScrapeFields[k] : k \in 1..Len(ScrapeFields)} |-> GetField(results[i], f)]]

\* the keys of HARDCODED_BBOX among the cities of the model
HARDCODED_BBOX == {London}

\* BusinessLeadExtractor.get_bbox_for_city: "bbox", or "SystemExit" when
\* Nominatim fails (any Exception of the try block) and the city has no
\* fallback.  nominatim_ok: the request succeeded and found the city.
get_bbox_for_city(city, nominatim_ok) ==
    IF nominatim_ok THEN "bbox"
    ELSE IF city \in HARDCODED_BBOX THEN "bbox"
    ELSE "SystemExit"

\* str.lower() on the tokens of the model
LowerToken(t) ==
    CASE t = "Acme" -> "acme"
      [] t = "ACME" -> "acme"
      [] t = "Bolt" -> "bolt"
      [] OTHER -> t

Lower(s) == [i \in 1..Len(s) |-> LowerToken(s[i])]

\* Overpass elements: the tags process_element reads, and what
\* scrape_emails_from_website finds on the element's website
ElemA ==
    [id |-> 101, name |-> <<"Acme">>, website |-> "http://acme.example", phone |-> "",
     address |-> <<>>, emails |-> <<"info@acme.example", "sales@acme.example">>]
ElemB ==
    [id |-> 102, name |-> <<WS, "ACME">>, website |-> "", phone |-> "555",
     address |-> <<"1 Main St">>, emails |-> <<>>]
\* an element without a name tag, and one more business
ElemNoName ==
    [id |-> 103, name |-> <<WS>>, website |-> "http://x.example", phone |-> "",
     address |-> <<>>, emails |-> <<>>]
ElemC ==
    [id |-> 104, name |-> <<"Bolt">>, website |-> "", phone |-> "",
     address |-> <<>>, emails |-> <<>>]

\* BusinessLeadExtractor.process_element: [some, rec]: the record of an
\* element, or None (some = FALSE) for an element without a name
process_element(elem, city) ==
    LET name == Strip(elem.name)
    IN  [some |-> name # <<>>,
         rec |-> [osm_type |-> "node", osm_id |-> elem.id,
                  name |-> name, industry |-> "Other",
                  location |-> IF elem.address # <<>> THEN elem.address ELSE city,
                  website |-> elem.website, phone |-> elem.phone,
                  revenue |-> "Undisclosed", emails_found |-> <<>>,
                  extraction_date |-> "today", tags |-> "tags"]]

\* "; ".join(emails)
RECURSIVE Join(_)
Join(emails) ==
    IF Len(emails) <= 1 THEN emails
    ELSE <<Head(emails), "; ">> \o Join(Tail(emails))

NoStats ==
    [total_found |-> 0, with_emails |-> 0, with_websites |-> 0, with_phones |-> 0,
     with_addresses |-> 0]

\* Bump, had the counter been raised for every record
BumpAlways(stats, key, cond) == [stats EXCEPT ![key] = @ + 1]

Bump(stats, key, cond) == IF cond THEN [stats EXCEPT ![key] = @ + 1] ELSE stats

\* NameKey, had the names been compared as they are written
NameKeyExact(name) == Strip(name)

\* line 390: name_key = record["name"].lower().strip()
NameKey(name) == Strip(Lower(name))

\* the loop of extract_leads, lines 380-415, from element i on
RECURSIVE ProcessElements(_, _, _, _, _, _, _)
ProcessElements(elements, i, city, max_results, processed_leads, seen_names, stats) ==
    IF i > Len(elements) \/ Len(processed_leads) >= max_results
    THEN [leads |-> processed_leads, stats |-> stats]
    ELSE LET element == process_element(elements[i], city)
             record == element.rec
         IN  IF ~element.some \/ record.name = <<>>
             THEN ProcessElements(elements, i + 1, city, max_results,
                                  processed_leads, seen_names, stats)
             ELSE LET name_key == NameKey(record.name)
                      emails == IF record.website # "" THEN elements[i].emails ELSE <<>>
                      rec == IF record.website # ""
                             THEN [record EXCEPT !.emails_found = Join(emails)]
                             ELSE record
                      s1 == Bump(stats, "with_emails", emails # <<>>)
                      s2 == Bump(s1, "with_websites", rec.website # "")
                      s3 == Bump(s2, "with_phones", rec.phone # "")
                      s4 == Bump(s3, "with_addresses", rec.location # city)
                  IN  IF name_key \in seen_names
                      THEN ProcessElements(elements, i + 1, city, max_results,
                                           processed_leads, seen_names, stats)
                      ELSE ProcessElements(elements, i + 1, city, max_results,
                                           Append(processed_leads, rec),
                                           seen_names \cup {name_key}, s4)

\* BusinessLeadExtractor.extract_leads: [kind, leads, stats, exc, elements].
\* kind is "return", "raise" (an Exception) or "exit" (SystemExit, a
\* BaseException); elements are the Overpass elements the call worked on.
\* overpass: [ok, elements]; ~ok is a response whose JSON is no object, on
\* which data.get raises.
extract_leads(city, max_results, nominatim_ok, overpass) ==
    IF get_bbox_for_city(city, nominatim_ok) = "SystemExit"
    THEN [kind |-> "exit", leads |-> <<>>, stats |-> NoStats,
          exc |-> "No fallback bbox available", elements |-> <<>>]
    ELSE IF ~overpass.ok
    THEN [kind |-> "raise", leads |-> <<>>, stats |-> NoStats,
          exc |-> "'list' object has no attribute 'get'", elements |-> <<>>]
    ELSE IF overpass.elements = <<>>
    THEN [kind |-> "return", leads |-> <<>>, stats |-> NoStats, exc |-> None,
          elements |-> <<>>]
    ELSE LET out == ProcessElements(overpass.elements, 1, city, max_results,
                                    <<>>, {}, NoStats)
         IN  [kind |-> "return", leads |-> out.leads,
              stats |-> [out.stats EXCEPT !.total_found = Len(out.leads)],
              exc |-> None, elements |-> overpass.elements]

\* what the Overpass API may answer
OverpassResponses ==
    {[ok |-> FALSE, elements |-> <<>>], [ok |-> TRUE, elements |-> <<>>],
     [ok |-> TRUE, elements |-> <<ElemA, ElemB, ElemNoName, ElemC>>]}

\* a response; the fields a handler does not set keep these values.  status
\* is the job.status the handler read first; request is the body a submit
\* response answers.
Response(op, id, code) ==
    [op |-> op, id |-> id, code |-> code, error |-> "", status |-> None,
     progress |-> -1, completed_at |-> None, results_count |-> -1,
     error_message |-> None, has_error_message |-> FALSE, records |-> <<>>,
     request |-> <<>>, pc |-> "sent"]

Idle == Response("idle", UnknownId, 0)
NoResp == Response("none", UnknownId, 0)

NothingSeen == [id |-> UnknownId, progress |-> -1]

\* A response is delivered before anything else happens: the delivery changes
\* only the client's notes, so its place among the other steps is immaterial.
Ready == resp = NoResp

\* the client receives the response and notes the job id a submit returned
Received ==
    /\ resp # NoResp
    /\ resp' = NoResp
    /\ issued' = IF resp.op = "submit" /\ resp.code = 200
                 THEN issued \cup {resp.id} ELSE issued
    /\ UNCHANGED <<wrapper, jobs, unit, req>>

Deliver == Received /\ UNCHANGED seen

\* a polling client also notes the progress of every status view it receives
DeliverNoted ==
    /\ Received
    /\ seen' = IF resp.op = "status" /\ resp.code = 200
               THEN [id |-> resp.id, progress |-> resp.progress] ELSE seen

Init ==
    /\ wrapper \in {"scrape", "extract"}
    /\ jobs = <<>>
    /\ unit = <<>>
    /\ req = Idle
    /\ resp = NoResp
    /\ seen = NothingSeen
    /\ issued = {}

SubmitResp(r, v, job_id) ==
    [Response("submit", IF v.accept THEN job_id ELSE UnknownId, v.code)
        EXCEPT !.error = v.error, !.request = r]

\* a submission: validation, job creation, thread start and response
Submit(r, v, job_id) ==
    /\ Ready
    /\ IF v.accept
       THEN /\ jobs' = RegisterJob(jobs, job_id, v.job)
            /\ unit' = StartThread(unit, job_id)
       ELSE UNCHANGED <<jobs, unit>>
    /\ resp' = SubmitResp(r, v, job_id)
    /\ UNCHANGED <<wrapper, req, seen, issued>>

\* POST /api/scrape
start_scraping(r) ==
    /\ wrapper = "scrape"
    /\ \E job_id \in FreshIds : Submit(r, ValidateScrape(r, job_id), job_id)

\* POST /api/extract
start_extraction(r) ==
    /\ wrapper = "extract"
    /\ \E job_id \in FreshIds : Submit(r, ValidateExtract(r, job_id), job_id)

(***************************************************************************)
(* Execution units.  A step of a unit is one attribute write of its job,   *)
(* together with the lines that lead to it: those lines touch the unit's   *)
(* own locals only, so no other thread can tell them from the write.       *)
(* unit[j].pc names the line of the next write.                            *)
(***************************************************************************)
\* At, had one worker thread run the jobs one after the other, in the order
\* of their submission
AtInTurn(j, pc) ==
    /\ j \in DOMAIN unit /\ j \in DOMAIN jobs /\ unit[j].pc = pc
    /\ \A k \in DOMAIN unit : k < j => unit[k].pc \in {"done", "dead"}

At(j, pc) == j \in DOMAIN unit /\ j \in DOMAIN jobs /\ unit[j].pc = pc

\* Write, had the fields been attributes of the class, shared by every job
WriteShared(j, field, value, u) ==
    /\ Ready
    /\ jobs' = [i \in DOMAIN jobs |-> [jobs[i] EXCEPT ![field] = value]]
    /\ unit' = [unit EXCEPT ![j] = u]
    /\ UNCHANGED <<wrapper, req, resp, seen, issued>>

\* job.<field> = value by unit j, whose state becomes u
Write(j, field, value, u) ==
    /\ Ready
    /\ jobs' = [jobs EXCEPT ![j][field] = value]
    /\ unit' = [unit EXCEPT ![j] = u]
    /\ UNCHANGED <<wrapper, req, resp, seen, issued>>

\* the unit ends, or goes on, without a write
Local(j, u) ==
    /\ Ready
    /\ unit' = [unit EXCEPT ![j] = u]
    /\ UNCHANGED <<wrapper, jobs, req, resp, seen, issued>>

Goto(j, pc) == [unit[j] EXCEPT !.pc = pc]

\* an Exception reaches the except block: job.status = 'failed' (107 / 62)
Raise(j, exc, driver) ==
    Write(j, "status", "failed", [unit[j] EXCEPT !.pc = "error", !.exc = exc,
                                                 !.driver = driver])

\* the unit calls the Extractor (scroll_hover_and_extract / extract_leads)
Called(u) == [u EXCEPT !.calls = @ + 1]

\* the call of the Extractor raises an Exception
RaiseInCall(j, exc, driver) ==
    Write(j, "status", "failed", [Called(unit[j]) EXCEPT !.pc = "error", !.exc = exc,
                                                         !.driver = driver])

\* the progress the except blocks store: job.progress = 0 (109 / 64)
FailedProgress(progress) == 0

\* the rest of the except blocks of run_scraping_job (108-110) and
\* run_extraction (63-64)
FailureHandler(j) ==
    \/ At(j, "error") /\ Write(j, "error_message", unit[j].exc, Goto(j, "progress0"))
    \/ At(j, "progress0")
          /\ Write(j, "progress", FailedProgress(jobs[j].progress), Goto(j, "done"))

\* run_scraping_job, lines 45-60: up to the creation of the scraper
ScrapeSetup(j) ==
    \/ At(j, "start") /\ Write(j, "status", "running", Goto(j, "L46"))
    \/ At(j, "L46") /\ Write(j, "progress", 10, Goto(j, "L60"))
    \/ At(j, "L60") /\
          \/ Write(j, "progress", 20, [unit[j] EXCEPT !.pc = "L68", !.driver = "open"])
          \* print (56) or webdriver.Chrome (71 of the scraper) raises
          \/ Raise(j, "WebDriverException", "none")
          \* setup_driver raises after the driver exists (72-74): no scraper
          \* object is bound, so nothing closes the driver
          \/ Raise(j, "WebDriverException", "open")

\* run_scraping_job, lines 62-72 and 103-104: search and extraction; a raise
\* runs the finally block (scraper.close()) on its way to the except block
ScrapeExtract(j) ==
    \/ At(j, "L68") /\
          \/ Write(j, "progress", 40, Goto(j, "L72"))
          \/ Raise(j, "WebDriverException", "closed")
    \/ At(j, "L72") /\
          \/ RaiseInCall(j, "WebDriverException", "closed")
          \/ \E out \in ScrapeOutputs(jobs[j].max_results) :
                Write(j, "progress", 90,
                      [Called(unit[j]) EXCEPT !.pc = "L89", !.local = out])

\* run_scraping_job, lines 74-104: storing the results
ScrapeStore(j) ==
    \/ At(j, "L89") /\ Write(j, "results", CleanResults(unit[j].local.results),
                             Goto(j, "L90"))
    \/ At(j, "L90") /\ Write(j, "status", "completed", Goto(j, "L91"))
    \/ At(j, "L91") /\ Write(j, "progress", 100, Goto(j, "L92"))
    \/ At(j, "L92") /\ Write(j, "completed_at", "ts", Goto(j, "L95"))

\* run_scraping_job, lines 94-104: the summary prints, then finally:
\* scraper.close().  A print that raises (OSError on a closed or broken
\* stdout) is caught by "except Exception" of line 106.
ScrapeSummary(j) ==
    At(j, "L95") /\
        \/ Local(j, [unit[j] EXCEPT !.pc = "done", !.driver = "closed"])
        \/ Raise(j, "OSError", "closed")

run_scraping_job(j) ==
    /\ wrapper = "scrape"
    /\ \/ ScrapeSetup(j)
       \/ ScrapeExtract(j)
       \/ ScrapeStore(j)
       \/ ScrapeSummary(j)
       \/ FailureHandler(j)

\* run_extraction, lines 43-48
ExtractSetup(j) ==
    \/ At(j, "start") /\ Write(j, "status", "running", Goto(j, "L44"))
    \/ At(j, "L44") /\ Write(j, "progress", 10, Goto(j, "L48"))
    \/ At(j, "L48") /\ Write(j, "progress", 20, Goto(j, "L52"))

\* run_extraction, lines 50-52 and 61-62: extractor.extract_leads()
ExtractCall(j) ==
    At(j, "L52") /\ \E nominatim_ok \in BOOLEAN, overpass \in OverpassResponses :
        LET out == extract_leads(jobs[j].city, jobs[j].max_results,
                                 nominatim_ok, overpass)
        IN  CASE out.kind = "return" ->
                   Write(j, "progress", 90,
                         [Called(unit[j]) EXCEPT !.pc = "L55", !.local = out])
              [] out.kind = "raise" -> RaiseInCall(j, out.exc, "none")
              \* SystemExit is no Exception: "except Exception" (61) does not
              \* catch it and the thread ends
              [] OTHER ->
                   Local(j, [Called(unit[j]) EXCEPT !.pc = "dead", !.exc = out.exc])

\* run_extraction, lines 54-59
ExtractStore(j) ==
    \/ At(j, "L55") /\ Write(j, "results", unit[j].local.leads, Goto(j, "L56"))
    \/ At(j, "L56") /\ Write(j, "stats", unit[j].local.stats, Goto(j, "L57"))
    \/ At(j, "L57") /\ Write(j, "status", "completed", Goto(j, "L58"))
    \/ At(j, "L58") /\ Write(j, "progress", 100, Goto(j, "L59"))
    \/ At(j, "L59") /\ Write(j, "completed_at", "ts", Goto(j, "done"))

run_extraction(j) ==
    /\ wrapper = "extract"
    /\ \/ ExtractSetup(j)
       \/ ExtractCall(j)
       \/ ExtractStore(j)
       \/ FailureHandler(j)

(***************************************************************************)
(* Read handlers.  A handler reads one attribute of the job per step; the  *)
(* units run between its steps.  req holds the handler's position and the  *)
(* response it is building.                                                *)
(***************************************************************************)
\* the ids a client may ask for
AskedIds == JobIds \cup {UnknownId}

\* scraping_jobs.get(job_id) / extraction_jobs.get(job_id)
Lookup(table, job_id) == job_id \in DOMAIN table

\* NotFound, had the return left out the 404
NotFoundAs200(op, job_id) ==
    [Response(op, job_id, 200) EXCEPT !.error = "Job not found"]

\* return jsonify({'success': False, 'error': 'Job not found'}), 404
NotFound(op, job_id) == [Response(op, job_id, 404) EXCEPT !.error = "Job not found"]

\* Respond, had the handler taken the job out of the table as it answered
\* (jobs.pop(job_id) in place of jobs.get(job_id))
RespondPopping(r) ==
    /\ Ready
    /\ resp' = [r EXCEPT !.pc = "sent"]
    /\ req' = Idle
    /\ jobs' = [j \in DOMAIN jobs |->
                   IF j = r.id THEN [jobs[j] EXCEPT !.status = "popped"] ELSE jobs[j]]
    /\ UNCHANGED <<wrapper, unit, seen, issued>>

\* the handler answers: the request ends
Respond(r) ==
    /\ Ready
    /\ resp' = [r EXCEPT !.pc = "sent"]
    /\ req' = Idle
    /\ UNCHANGED <<wrapper, jobs, unit, seen, issued>>

\* the handler goes on to its next read
Continue(r) ==
    /\ Ready
    /\ req' = r
    /\ UNCHANGED <<wrapper, jobs, unit, resp, seen, issued>>

Reading(op, pc) == req.op = op /\ req.pc = pc

\* get_job_status, lines 212-220: lookup, then 'status': job.status
StatusBegin(job_id) ==
    /\ req = Idle
    /\ IF ~Lookup(jobs, job_id)
       THEN Respond([NotFound("status", job_id) EXCEPT !.pc = "L215"])
       ELSE Continue([Response("status", job_id, 200) EXCEPT
                         !.pc = "L221", !.status = jobs[job_id].status])

\* get_job_status, line 221: 'progress': job.progress
StatusProgress ==
    /\ Reading("status", "L221")
    /\ Continue([req EXCEPT !.pc = "L225", !.progress = jobs[req.id].progress])

\* get_job_status, line 225: if job.status == 'completed'
StatusIfCompleted ==
    /\ Reading("status", "L225")
    /\ Continue([req EXCEPT
                    !.pc = IF jobs[req.id].status = "completed" THEN "L232" ELSE "L237"])

\* get_job_status, lines 226-236 (148-153 of the extract wrapper): the
\* completed branch.  job.completed_at.isoformat() raises AttributeError on
\* None: the handler has no try block and Flask answers 500.
StatusCompleted ==
    /\ Reading("status", "L232")
    /\ IF jobs[req.id].completed_at = None
       THEN Respond([Response("status", req.id, 500) EXCEPT
                        !.pc = "L232", !.error = "Internal Server Error"])
       ELSE Respond([req EXCEPT !.completed_at = jobs[req.id].completed_at,
                                !.results_count = Len(jobs[req.id].results)])

\* get_job_status, lines 237-240: elif job.status == 'failed', else return
StatusIfFailed ==
    /\ Reading("status", "L237")
    /\ IF jobs[req.id].status = "failed"
       THEN Continue([req EXCEPT !.pc = "L238"])
       ELSE Respond(req)

\* get_job_status, line 238: response['error_message'] = job.error_message
StatusError ==
    /\ Reading("status", "L238")
    /\ Respond([req EXCEPT !.error_message = jobs[req.id].error_message,
                           !.has_error_message = TRUE])

get_job_status ==
    \/ \E job_id \in AskedIds : StatusBegin(job_id)
    \/ StatusProgress
    \/ StatusIfCompleted
    \/ StatusCompleted
    \/ StatusIfFailed
    \/ StatusError

\* NotReady, had the check named the unfinished statuses only
NotReadyUnfinished(status) == status \in {"pending", "running"}

\* "if job.status != 'completed'" of get_results and download_csv
NotReady(status) == status # "completed"

\* get_results / download_csv up to their status check (245-251, 268-274)
ResultsBegin(op, job_id) ==
    /\ req = Idle
    /\ IF ~Lookup(jobs, job_id)
       THEN Respond([NotFound(op, job_id) EXCEPT !.pc = "L248"])
       ELSE IF NotReady(jobs[job_id].status)
       THEN Respond([Response(op, job_id, 400) EXCEPT
                        !.pc = "L251", !.error = "Job not completed yet",
                        !.status = jobs[job_id].status])
       ELSE Continue([Response(op, job_id, 200) EXCEPT
                         !.pc = "L253", !.status = jobs[job_id].status])

\* get_results, lines 253-263 (170-175): 'results': job.results
get_results ==
    \/ \E job_id \in AskedIds : ResultsBegin("results", job_id)
    \/ /\ Reading("results", "L253")
       /\ Respond([req EXCEPT !.records = jobs[req.id].results])

\* the header of the CSV export and, for every column, the key of the record
\* that fills it
CsvFields ==
    IF wrapper = "scrape"
    THEN [header |-> ScrapeFields, keys |-> ScrapeFields]
    ELSE [header |-> <<"name", "industry", "location", "email", "revenue", "website",
                        "phone", "extraction_date">>,
          keys |-> <<"name", "industry", "location", "emails_found", "revenue",
                     "website", "phone", "extraction_date">>]

\* the text of the value of a field: the name, location and emails_found of
\* an /api/extract record are strs of tokens; every other value is a str of
\* one token ("": the empty str)
FieldText(field, v) ==
    IF wrapper = "extract" /\ field \in {"name", "location", "emails_found"} THEN v
    ELSE IF v = "" THEN <<>> ELSE <<v>>

\* what csv.DictWriter.writerow writes for a value: None is written as the
\* empty str, every other value as its text
CsvValue(field, v) ==
    IF wrapper = "scrape" /\ v = None THEN <<>> ELSE FieldText(field, v)

\* download_csv, lines 282-283 (194-205): one row per result, in header order
CsvRows(results) ==
    [i \in 1..Len(results) |->
        [c \in 1..Len(CsvFields.keys) |->
            CsvValue(CsvFields.keys[c], GetField(results[i], CsvFields.keys[c]))]]

\* the characters of the csv module's default dialect
Comma == ","
Quote == "\""
CRLF == "\r\n"
CsvSpecial == {Comma, Quote, CRLF, "\n", "\r"}

\* csv.writer, QUOTE_MINIMAL: a field is quoted when it holds a special
\* character, and the quotes inside it are doubled
RECURSIVE CsvEscape(_)
CsvEscape(f) ==
    IF f = <<>> THEN <<>>
    ELSE (IF Head(f) = Quote THEN <<Quote, Quote>> ELSE <<Head(f)>>) \o CsvEscape(Tail(f))

\* CsvField, had the row been built with ",".join(...)
CsvFieldJoined(f) == f

CsvField(f) ==
    IF \E i \in 1..Len(f) : f[i] \in CsvSpecial
    THEN <<Quote>> \o CsvEscape(f) \o <<Quote>>
    ELSE f

\* writer.writerow: the fields, comma-separated, and the line terminator
RECURSIVE CsvLine(_)
CsvLine(row) ==
    IF Len(row) = 1 THEN CsvField(row[1]) \o <<CRLF>>
    ELSE CsvField(Head(row)) \o <<Comma>> \o CsvLine(Tail(row))

\* writer.writeheader() and the writerow calls: output.getvalue()
RECURSIVE CsvText(_)
CsvText(rows) == IF rows = <<>> THEN <<>> ELSE CsvLine(Head(rows)) \o CsvText(Tail(rows))

\* csv.reader, one row: the text from character i on, the row and the field
\* being read, and the state of the reader ("start" of a field, "plain"
\* field, "quoted" field, "quote" seen in a quoted field).  [row, next]: the
\* row, and the place of the character after its line terminator.
RECURSIVE CsvReadRow(_, _, _, _, _)
CsvReadRow(text, i, row, field, mode) ==
    IF i > Len(text) THEN [row |-> Append(row, field), next |-> i]
    ELSE LET c == text[i]
         IN  IF mode = "quoted"
             THEN IF c = Quote THEN CsvReadRow(text, i + 1, row, field, "quote")
                  ELSE CsvReadRow(text, i + 1, row, Append(field, c), "quoted")
             ELSE IF c = Quote /\ mode = "start"
             THEN CsvReadRow(text, i + 1, row, field, "quoted")
             ELSE IF c = Quote /\ mode = "quote"
             THEN CsvReadRow(text, i + 1, row, Append(field, c), "quoted")
             ELSE IF c = Comma
             THEN CsvReadRow(text, i + 1, Append(row, field), <<>>, "start")
             ELSE IF c = CRLF THEN [row |-> Append(row, field), next |-> i + 1]
             ELSE CsvReadRow(text, i + 1, row, Append(field, c), "plain")

\* csv.reader: the rows of the text from character i on
RECURSIVE CsvRead(_, _, _)
CsvRead(text, i, rows) ==
    IF i > Len(text) THEN rows
    ELSE LET read == CsvReadRow(text, i, <<>>, <<>>, "start")
         IN  CsvRead(text, read.next, Append(rows, read.row))

\* what a client parses out of the export
CsvParse(text) == CsvRead(text, 1, <<>>)

\* download_csv, lines 276-302 (188-223)
download_csv ==
    \/ \E job_id \in AskedIds : ResultsBegin("download", job_id)
    \/ /\ Reading("download", "L253")
       /\ Respond([req EXCEPT !.records =
                      CsvText(<<[c \in 1..Len(CsvFields.header) |->
                                   <<CsvFields.header[c]>>]>>
                              \o CsvRows(jobs[req.id].results))])

(***************************************************************************)
(* Specifications.                                                         *)
(***************************************************************************)
\* the steps of the units and of the read handlers
Run ==
    \/ \E j \in JobIds : run_scraping_job(j)
    \/ \E j \in JobIds : run_extraction(j)
    \/ get_job_status
    \/ get_results
    \/ download_csv

Next ==
    \/ \E r \in ScrapeSamples : start_scraping(r)
    \/ \E r \in ExtractSamples : start_extraction(r)
    \/ Run
    \/ Deliver

\* the wrapper with its units and clients
Spec == Init /\ [][Next]_vars

NextPoll ==
    \/ \E r \in ScrapeSamples : start_scraping(r)
    \/ \E r \in ExtractSamples : start_extraction(r)
    \/ Run
    \/ DeliverNoted

\* the same, with a client that compares successive status views
SpecPoll == Init /\ [][NextPoll]_vars

NextSubmit ==
    \/ \E r \in ScrapeRequests : start_scraping(r)
    \/ \E r \in ExtractRequests : start_extraction(r)
    \/ Deliver

\* the submissions alone, over every request body of the model
SpecSubmit == Init /\ [][NextSubmit]_vars

NextCap ==
    \/ \E r \in ScrapeCapSamples : start_scraping(r)
    \/ \E r \in ExtractCapSamples : start_extraction(r)
    \/ Run
    \/ Deliver

\* the wrapper with jobs whose cap is smaller than the number of results
SpecCap == Init /\ [][NextCap]_vars

(***************************************************************************)
(* Properties.                                                             *)
(***************************************************************************)
Terminal == {"completed", "failed"}
ReadOps == {"status", "results", "download"}
ResultOps == {"results", "download"}
Finished(j) == j \in DOMAIN unit /\ unit[j].pc \in {"done", "dead"}

\* C1: once a job's status is completed or failed it never changes again
\* (no step of any unit takes a job out of a terminal status).
C1_TerminalStatusIsFinal ==
    [][\A j \in DOMAIN jobs :
          jobs[j].status \in Terminal => jobs'[j].status = jobs[j].status]_vars

\* C2: a job whose Extractor call ended by raising (an Exception or the
\* SystemExit of get_bbox_for_city) is marked failed with a non-empty error
\* once its unit has ended; it is not left in running.
C2_RaisedExtractorMarksFailed ==
    \A j \in DOMAIN jobs :
        Finished(j) /\ unit[j].exc # None
            => /\ jobs[j].status = "failed"
               /\ jobs[j].error_message \notin {None, ""}

\* C3: a status view that reports pending or running reports a progress that
\* is at least the progress of the status view of the same job received
\* before it.
C3_ProgressNeverMovesBack ==
    (/\ resp.op = "status" /\ resp.code = 200
     /\ resp.status \in {"pending", "running"}
     /\ seen.id = resp.id)
        => resp.progress >= seen.progress

\* C4: the transition to failed, and every step of a failed job, leaves the
\* progress of the job as it was while the job was running.
C4_FailureKeepsProgress ==
    [][\A j \in DOMAIN jobs :
          jobs'[j].status = "failed" => jobs'[j].progress = jobs[j].progress]_vars

\* C5: get_results and download_csv answer 400 without records for a known
\* job whose status they read as pending, running or failed, and answer with
\* records only when they read completed; a job that is still pending or
\* running when the answer leaves is never answered with records.
C5_RecordsOnlyWhenCompleted ==
    (resp.op \in ResultOps /\ resp.id \in DOMAIN jobs)
        => /\ resp.status # "completed" => resp.code = 400 /\ resp.records = <<>>
           /\ resp.code = 200 => resp.status = "completed"
           /\ jobs[resp.id].status \in {"pending", "running"}
                 => resp.code = 400 /\ resp.records = <<>>
           /\ resp.code \in {200, 400}

\* a failed job is refused its records
C5_Witness ==
    /\ resp.op \in ResultOps /\ resp.id \in DOMAIN jobs
    /\ jobs[resp.id].status = "failed" /\ resp.code = 400

\* C6: every job id a submit has returned is in the job table, and a status
\* request for it is never answered 404.
C6_IssuedJobsStayKnown ==
    /\ issued \subseteq DOMAIN jobs
    /\ (resp.op = "status" /\ resp.id \in issued) => resp.code # 404

\* the status of the first job is read after a second submit and after the
\* first job has ended
C6_Witness ==
    /\ Cardinality(issued) = MaxJobs
    /\ resp.op = "status" /\ resp.id = 1 /\ resp.code = 200
    /\ jobs[1].status \in Terminal

\* C7: a read of an id that no submit has returned is answered 404 without
\* records, and leaves the job table and the units as the submits made them.
C7_UnknownIdIsNotFound ==
    (resp.op \in ReadOps /\ resp.id \notin issued)
        => /\ resp.code = 404 /\ resp.records = <<>>
           /\ resp.id \notin DOMAIN jobs
           /\ DOMAIN jobs = issued /\ DOMAIN unit = issued

\* a never-issued id is asked for after a job has been submitted
C7_Witness ==
    /\ resp.op = "download" /\ resp.code = 404 /\ issued # {}

\* the value of a key of a request body is an empty or whitespace-only str,
\* or the key is missing
Blank(v) == v.t = "absent" \/ (v.t = "str" /\ Strip(v.s) = <<>>)

\* the category / business-type selection of a request is empty
EmptySelection(r) ==
    IF wrapper = "scrape" THEN Blank(r.business_type)
    ELSE r.industries.t = "absent" \/ (r.industries.t = "list" /\ r.industries.s = <<>>)

\* the result cap a request asks for (the default when it names none); none
\* when the value is no number
CapOf(r) ==
    IF wrapper = "scrape"
    THEN IntOf(Get(r.max_results, JNum(DefaultScrapeMaxResults)))
    ELSE IntOf(Get(r.maxResults, JNum(DefaultExtractMaxResults)))

\* a cap within the allowed set (/api/scrape) or range (/api/extract: at
\* least one result; zero and negative caps are outside it)
CapAllowed(n) == IF wrapper = "scrape" THEN n \in AllowedMaxResults ELSE n >= 1

\* C8: a submission (a JSON body) with an empty location, an empty selection
\* or a cap outside the allowed set is answered 400 and creates no job and no
\* unit.
C8_InvalidSubmissionRejected ==
    (/\ resp.op = "submit" /\ resp.request.json
     /\ \/ Blank(IF wrapper = "scrape" THEN resp.request.location ELSE resp.request.city)
        \/ EmptySelection(resp.request)
        \/ (CapOf(resp.request).ok /\ ~CapAllowed(CapOf(resp.request).n)))
        => /\ resp.code = 400
           /\ DOMAIN jobs = issued /\ DOMAIN unit = issued

\* a request value of the wrong JSON type
Malformed(r) ==
    \/ ~r.json
    \/ IF wrapper = "scrape"
       THEN \/ r.location.t \notin {"str", "absent"}
            \/ r.business_type.t \notin {"str", "absent"}
            \/ ~CapOf(r).ok
       ELSE \/ r.city.t \notin {"str", "absent"}
            \/ ~CapOf(r).ok

\* C9: a submission with malformed parameters is answered 400 with a message
\* that names the offending field.
C9_MalformedSubmissionIs400 ==
    (resp.op = "submit" /\ Malformed(resp.request))
        => resp.code = 400 /\ FieldNamed(resp.error) # "none"

\* C10: in both wrappers every job a submit allocates has a result cap
\* within the allowed set or range.
C10_AllocatedCapAllowed ==
    \A j \in DOMAIN jobs : CapAllowed(jobs[j].max_results)

\* C11: a submit that returns a job id has registered the job and started
\* its unit, and returns before the unit has run any line: the job it answers
\* for is still pending, whatever the other jobs are doing.
C11_SubmitReturnsBeforeUnitRuns ==
    (resp.op = "submit" /\ resp.code = 200)
        => /\ resp.id \in DOMAIN jobs /\ resp.id \in DOMAIN unit
           /\ unit[resp.id].pc = "start"
           /\ jobs[resp.id].status = "pending" /\ jobs[resp.id].progress = 0

\* a submit returns the id of a second job while the first job is running
C11_Witness ==
    /\ resp.op = "submit" /\ resp.code = 200 /\ resp.id = 2
    /\ jobs[1].status = "running" /\ jobs[2].status = "pending"

\* C12: get_status on an id of the job table always answers with a status
\* view (200), never with an internal error.
C12_StatusNeverFails ==
    (resp.op = "status" /\ resp.id \in DOMAIN jobs) => resp.code = 200

\* C13: completed_at is unset while a job is pending or running, and holds a
\* timestamp whenever the job is completed or failed and its unit has ended.
C13_CompletedAtSetWhenTerminal ==
    \A j \in DOMAIN jobs :
        /\ jobs[j].status \in {"pending", "running"} => jobs[j].completed_at = None
        /\ jobs[j].status \in Terminal /\ Finished(j) => jobs[j].completed_at # None

\* C14: every status view that reports completed reports progress 100.
C14_CompletedViewHasProgress100 ==
    (resp.op = "status" /\ resp.code = 200 /\ resp.status = "completed")
        => resp.progress = 100

\* C15: a status view that reports failed carries a non-null error message,
\* and a view that reports pending, running or completed carries none.
C15_ErrorIffFailedView ==
    (resp.op = "status" /\ resp.code = 200)
        => IF resp.status = "failed"
           THEN resp.has_error_message /\ resp.error_message # None
           ELSE ~resp.has_error_message

\* C16, first half: the records of a job are empty in every state in which
\* its status is not completed.
C16_RecordsEmptyUnlessCompleted ==
    \A j \in DOMAIN jobs : jobs[j].status # "completed" => jobs[j].results = <<>>

\* C16 as amended: the records of a job are empty while it is pending, while
\* it is running with a progress below 90, and when it failed without ever
\* having completed; the unit stores them right before it marks the job
\* completed, and once populated they never change: get_results returns the
\* records the job holds.
C16_RecordsStoredOnce ==
    /\ [](\A j \in DOMAIN jobs :
             (\/ jobs[j].status = "pending"
              \/ jobs[j].status = "running" /\ jobs[j].progress < 90
              \/ jobs[j].status = "failed" /\ jobs[j].completed_at = None)
                 => jobs[j].results = <<>>)
    /\ []((resp.op = "results" /\ resp.code = 200)
             => resp.records = jobs[resp.id].results)
    /\ [][\A j \in DOMAIN jobs :
             jobs[j].results # <<>> => jobs'[j].results = jobs[j].results]_vars

\* get_results returns the records of a completed job
C16_Witness ==
    /\ resp.op = "results" /\ resp.code = 200 /\ resp.records # <<>>
    /\ jobs[resp.id].status = "completed"

\* C17: every job of the table has exactly one execution: one thread was
\* started for its id, that thread has called the Extractor at most once, and
\* exactly once when the job is completed.
C17_OneExecutionPerJob ==
    \A j \in DOMAIN jobs :
        /\ j \in DOMAIN unit
        /\ unit[j].runs = 1
        /\ unit[j].calls <= 1
        /\ jobs[j].status = "completed" => unit[j].calls = 1

\* the first job has failed in its Extractor call; a second job has been
\* submitted since, and the results of the first are asked for
C17_Witness ==
    /\ Cardinality(issued) = MaxJobs
    /\ resp.op = "results" /\ resp.id = 1 /\ resp.code = 400
    /\ jobs[1].status = "failed" /\ Finished(1)
    /\ unit[1].runs = 1 /\ unit[1].calls = 1

\* C18: a step that changes a field of a job is a step of that job's own
\* unit, and it leaves every field of every other job, and every other unit,
\* as they were (the failure steps included).
C18_UnitsWriteOwnJobOnly ==
    [][\A k \in DOMAIN jobs :
          jobs'[k] # jobs[k]
              => /\ unit'[k] # unit[k]
                 /\ \A j \in DOMAIN jobs \ {k} :
                       jobs'[j] = jobs[j] /\ unit'[j] = unit[j]]_vars

\* the first job has failed and the second has completed all the same
C18_Witness ==
    /\ DOMAIN jobs = JobIds
    /\ jobs[1].status = "failed" /\ Finished(1) /\ jobs[1].error_message # None
    /\ jobs[2].status = "completed" /\ Finished(2) /\ jobs[2].error_message = None

\* the empty name of a record (a str in /api/scrape records, a str of tokens
\* in /api/extract records)
NoName(name) == IF wrapper = "scrape" THEN name = "" ELSE name = <<>>

\* C19: get_results returns at most max_results records of the job, and every
\* record it returns has a non-empty name.
C19_AtMostCapNamedRecords ==
    (resp.op = "results" /\ resp.code = 200)
        => /\ Len(resp.records) <= jobs[resp.id].max_results
           /\ \A i \in 1..Len(resp.records) : ~NoName(resp.records[i].name)

\* the export of a job read back: its header, its rows and the records of
\* the job; every row has one value per header field
Export ==
    LET parsed == CsvParse(resp.records)
    IN  [header |-> parsed[1], rows |-> Tail(parsed), records |-> jobs[resp.id].results]

C21_RecordsHoldEveryExportField ==
    \A j \in DOMAIN jobs :
        jobs[j].status = "completed"
            => \A i \in 1..Len(jobs[j].results) :
                  \A c \in 1..Len(CsvFields.header) :
                      /\ CsvFields.header[c] \in DOMAIN jobs[j].results[i]
                      /\ wrapper = "scrape"
                            => jobs[j].results[i][CsvFields.header[c]] # None

\* C22: get_status, get_results and export_csv are pure reads: no step of
\* one of these handlers changes a field of a job, the job table or the
\* execution units.
C22_ReadsChangeNothing ==
    [][(req' # req \/ (resp' # resp /\ resp'.op \in ReadOps))
          => (jobs' = jobs /\ unit' = unit)]_vars

\* the export of a completed job has been answered while the unit of another
\* job was running
C22_Witness ==
    /\ resp.op = "download" /\ resp.code = 200
    /\ \E j \in DOMAIN unit : ~Finished(j) /\ jobs[j].status = "running"

\* C23: jobs may finish in any order: the unit of a job can take its next
\* step whatever the state of the jobs submitted before it, so that an
\* execution exists in which the job submitted later is completed or failed
\* while the earlier one is still pending or running.
C23_UnitsRunIndependently ==
    Ready => \A j \in DOMAIN unit :
                ~Finished(j) => ENABLED (run_scraping_job(j) \/ run_extraction(j))

\* the second job is terminal and the first has not left pending
C23_Witness ==
    /\ DOMAIN jobs = {1, 2}
    /\ jobs[2].status \in Terminal /\ Finished(2)
    /\ jobs[1].status = "pending"

\* C24: no status view shows the status running together with progress 0.
C24_RunningViewHasProgress ==
    (resp.op = "status" /\ resp.code = 200 /\ resp.status = "running")
        => resp.progress # 0

\* C25: a status view holds completed_at and results_count only if the
\* status it reports is completed, and error_message only if the status it
\* reports is failed.
C25_ViewMatchesItsStatus ==
    (resp.op = "status" /\ resp.code = 200)
        => /\ (resp.completed_at # None \/ resp.results_count # -1)
                 => resp.status = "completed"
           /\ resp.has_error_message => resp.status = "failed"

\* the lines of run_scraping_job at which scroll_hover_and_extract has
\* returned to the unit
ScrapeAfterCall == {"L89", "L90", "L91", "L92", "L95"}

\* the unit of job j holds what scroll_hover_and_extract left
Scrolled(j) == wrapper = "scrape" /\ j \in DOMAIN unit /\ unit[j].pc \in ScrapeAfterCall

\* C26: over all rounds of _scroll_and_load_results every card is handed to
\* the extraction at most once, also when a card is skipped (so no two
\* records come from the same card), and when the loop ends for want of new
\* cards every card of the list has been handed to it.
C26_EachCardExtractedOnce ==
    \A j \in DOMAIN unit :
        Scrolled(j)
            => LET out == unit[j].local
                   cards == out.pages[Len(out.pages)]
               IN  /\ \A a, b \in 1..Len(out.visited) :
                         a # b => out.visited[a] # out.visited[b]
                   /\ out.exit = "idle"
                         => \A i \in 1..Len(cards) :
                               \E a \in 1..Len(out.visited) : out.visited[a] = i

\* C27: _scroll_and_load_results ends once the list of cards has stopped
\* growing: the loop is left at most max_idle_rounds rounds after the last
\* page, either with results holding max_results records, in the round that
\* reached them, or after max_idle_rounds rounds in a row without more cards,
\* whether or not a card was extracted.
C27_ScrollLoopTerminates ==
    \A j \in DOMAIN unit :
        Scrolled(j)
            => LET out == unit[j].local
               IN  /\ out.exit \in {"while", "max", "idle"}
                   /\ out.rounds <= Len(out.pages) + max_idle_rounds
                   /\ Len(out.results) <= jobs[j].max_results
                   /\ out.exit = "idle" <=> Len(out.results) < jobs[j].max_results
                   /\ out.exit = "idle" => out.idle_rounds = max_idle_rounds

\* one loop has ended without a card and without a record, another with
\* max_results records before the end of the list
C27_Witness ==
    /\ Scrolled(1) /\ unit[1].local.exit = "idle" /\ unit[1].local.visited = <<>>
    /\ Scrolled(2) /\ unit[2].local.exit = "max"
    /\ Len(unit[2].local.results) < Len(unit[2].local.pages[Len(unit[2].local.pages)])

\* C28: every browser driver run_scraping_job creates is closed: no job is
\* failed, and no unit has ended, with its driver left open.
C28_NoDriverLeftOpen ==
    \A j \in DOMAIN unit :
        (jobs[j].status = "failed" \/ Finished(j)) => unit[j].driver # "open"

\* the lines of run_extraction at which extract_leads has returned
ExtractAfterCall == {"L55", "L56", "L57", "L58", "L59"}

\* the unit of job j holds what extract_leads returned
Extracted(j) ==
    wrapper = "extract" /\ j \in DOMAIN unit /\ unit[j].pc \in ExtractAfterCall

\* the elements of a list that have a name and whose name, trimmed and
\* compared without regard to case, is not the name of an earlier element
FirstOfName(elements) ==
    LET Kept(i) == /\ Strip(elements[i].name) # <<>>
                   /\ \A k \in 1..(i - 1) :
                         Lower(Strip(elements[k].name)) # Lower(Strip(elements[i].name))
    IN  SelectSeq([i \in 1..Len(elements) |-> [i |-> i, kept |-> Kept(i)]],
                  LAMBDA e : e.kept)

\* C29: extract_leads returns its records in the order of the Overpass
\* elements, one for the first element of every name (names trimmed and
\* compared without regard to case), up to max_results: no two records have
\* names equal but for case and no record has an empty name.
C29_FirstOfEachNameInOrder ==
    \A j \in DOMAIN unit :
        Extracted(j)
            => LET leads == unit[j].local.leads
                   elements == unit[j].local.elements
                   first == FirstOfName(elements)
               IN  /\ Len(leads) = IF jobs[j].max_results < 0 THEN 0
                                   ELSE Min(Len(first), jobs[j].max_results)
                   /\ \A a \in 1..Len(leads) :
                         /\ leads[a].osm_id = elements[first[a].i].id
                         /\ leads[a].name = Strip(elements[first[a].i].name)
                         /\ leads[a].name # <<>>
                         /\ \A b \in 1..Len(leads) :
                               a # b => Lower(leads[a].name) # Lower(leads[b].name)

\* extract_leads has returned two records from four elements, one of them a
\* second spelling of the first name and one without a name
C29_Witness ==
    \E j \in DOMAIN unit :
        /\ Extracted(j)
        /\ Len(unit[j].local.elements) = 4 /\ Len(unit[j].local.leads) = 2
        /\ unit[j].local.leads[2].osm_id = unit[j].local.elements[4].id

\* the number of records whose value for the field is not empty
CountWith(results, field) == Cardinality({i \in 1..Len(results) : results[i][field] # ""})

\* C30: the stats of a completed /api/extract job agree with its records:
\* total_found is their number, with_websites and with_phones are the numbers
\* of records with a website and with a phone, and
\* with_emails <= with_websites <= total_found.
C30_StatsMatchRecords ==
    \A j \in DOMAIN jobs :
        (wrapper = "extract" /\ jobs[j].status = "completed")
            => LET stats == jobs[j].stats
                   results == jobs[j].results
               IN  /\ stats.total_found = Len(results)
                   /\ stats.with_websites = CountWith(results, "website")
                   /\ stats.with_phones = CountWith(results, "phone")
                   /\ stats.with_emails <= stats.with_websites
                   /\ stats.with_websites <= stats.total_found

\* a completed job holds two records, one of them with a website on which
\* emails were found
C30_Witness ==
    \E j \in DOMAIN jobs :
        /\ wrapper = "extract" /\ jobs[j].status = "completed"
        /\ Len(jobs[j].results) = 2
        /\ jobs[j].stats.with_websites = 1 /\ jobs[j].stats.with_emails = 1

=============================================================================
